---- MODULE Spec2Model ----
(***************************************************************************)
(* Model of the collaboration recommender service:                         *)
(*   app/recommender.py  CollaborationRecommender (load_model, recommend)  *)
(*   app/main.py         lifespan, /health, /recommend, /knowledge-graph   *)
(*   app/models.py       User, AuthorInterest                              *)
(*   app/schemas.py      RecommendationRequest                             *)
(*                                                                         *)
(* Floating point scores are kept as exact fixed-point integers in units   *)
(* of 1/Unit.  A missing (NaN) number is the value NaN; every comparison   *)
(* with it is FALSE, as in IEEE arithmetic.                                *)
(***************************************************************************)
EXTENDS Integers, Sequences, FiniteSets, TLC

VARIABLES df, vectorizer, author_vectors, knn_model, max_articles,
          max_interests, startup, users, author_interests, last

vars == <<df, vectorizer, author_vectors, knn_model, max_articles,
          max_interests, startup, users, author_interests, last>>

\* the attributes of the recommender object
engineVars == <<df, vectorizer, author_vectors, knn_model, max_articles,
                max_interests>>

\* the users and author_interests tables of the database
dbVars == <<users, author_interests>>

(* ------------------------------ bounds --------------------------------- *)

\* largest corpus table (number of author rows) an artifact set holds
MaxCorpus == 2

(* --------------------------- value domains ----------------------------- *)

\* a missing numeric cell of the corpus table (pandas NaN)
NaN == -1

\* fixed-point unit of every score: 1.0 is Unit
Unit == 600 * 100

\* Python None for an attribute of the engine
None == [present |-> FALSE, value |-> <<>>]

Some(v) == [present |-> TRUE, value |-> v]

\* a present Author_Name cell and a present Main_Interest cell; a text is
\* a sequence of symbols, a missing cell (NaN or None) is None
KnownName == Some(<<"Ann">>)

KnownLabel == Some(<<"deep">>)

\* cells of the Articles_Count column
ArticleVals == {NaN, 0, 2}

\* cells of the Interests_Count column (lines 118 and 135 treat it exactly
\* as lines 117 and 134 treat Articles_Count, whose cells may be missing)
InterestVals == {2}

\* cosine similarity (in hundredths) of an author vector to a query vector
\* that hits the fitted vocabulary: below, at and above the 0.1 floor.  The
\* TF-IDF weights are not computed; every row may have any of these values
SimVals == {5, 10, 40}

\* the terms the fitted vectorizer knows
Vocabulary == {"deep"}

\* twelve more words of four lower-case letters
ManyWords ==
    <<"aaaa", "bbbb", "cccc", "dddd", "eeee", "ffff", "gggg", "hhhh",
      "iiii", "jjjj", "kkkk", "llll">>

\* words that match [a-z]{4,} once lower-cased
LongWords ==
    {"deep", "study", "Deep", "graph"}
        \cup {ManyWords[i] : i \in 1..Len(ManyWords)}

Lower(w) == IF w = "Deep" THEN "deep" ELSE w

\* the (interests, publications) pairs a caller passes: an empty profile,
\* a vocabulary term, a term outside the vocabulary, keywords taken from
\* the publications
Queries ==
    {[interests |-> <<>>, publications |-> <<>>],
     [interests |-> <<"deep">>, publications |-> <<>>],
     [interests |-> <<"ml">>, publications |-> <<>>],
     [interests |-> <<"ml">>, publications |-> <<"study", "Deep">>]}

\* the one query of the runs that vary other inputs
GraphQueries == {[interests |-> <<"deep">>, publications |-> <<>>]}

\* top_k of a direct call of recommend
TopKs == {-1, 0, 1, 2, 100}

\* num_recommendations of a POST /recommend body: Field(10, ge=1, le=100)
MinRecommendations == 1

MaxRecommendations == 100

NumRecommendations == {0, 1, 100, 101}

(* ------------------------------ helpers -------------------------------- *)

Range(s) == {s[i] : i \in 1..Len(s)}

Min2(a, b) == IF a <= b THEN a ELSE b

Reverse(s) == [i \in 1..Len(s) |-> s[Len(s) + 1 - i]]

SeqsUpTo(S, n) == UNION {[1..k -> S] : k \in 0..n}

\* pandas Series.max(): NaN cells are skipped, an empty or all-NaN column
\* gives NaN
SeriesMax(rows, col) ==
    LET cells == {rows[i][col] : i \in 1..Len(rows)} \ {NaN}
    IN  IF cells = {} THEN NaN
        ELSE CHOOSE x \in cells : \A y \in cells : y <= x

(* --------------------------- artifact sets ----------------------------- *)

\* one row of authors_data.pkl together with the row's entry of the
\* neighbour index (its similarity to an in-vocabulary query)
AuthorRows ==
    [Articles_Count : ArticleVals, Interests_Count : InterestVals,
     sim : SimVals, Author_Name : {KnownName},
     Main_Interest : {KnownLabel}]

\* recommend retrieves top_k * 10 neighbours
OverFetch == 10

\* corpora with more rows than one over-fetch for top_k = 1 retrieves
BigCorpora == {[i \in 1..(OverFetch + 1) |-> r] : r \in AuthorRows}

\* the neighbour index (and vector matrix) fitted on a corpus
SimsOf(rows) == [i \in 1..Len(rows) |-> rows[i].sim]

\* the directories train_model.py writes for the corpora: table, index and
\* matrix come from one fit; failAt is the step at which reading raises
Fitted(corpora, fails) ==
    {[rows |-> r, failAt |-> f, index |-> SimsOf(r)] :
        r \in corpora, f \in fails}

\* what a model directory can hold: the corpus rows and the step of
\* load_model at which reading it raises (0: the directory is missing,
\* 1..4: the four files, 5 and 6: the two column maxima, 7: nothing raises)
ArtifactSets ==
    Fitted(SeqsUpTo(AuthorRows, MaxCorpus) \cup BigCorpora, 0..7)

TableOf(a) ==
    [i \in 1..Len(a.rows) |->
        [Author_ID |-> i,
         Author_Name |-> a.rows[i].Author_Name,
         Main_Interest |-> a.rows[i].Main_Interest,
         Articles_Count |-> a.rows[i].Articles_Count,
         Interests_Count |-> a.rows[i].Interests_Count]]

IndexOf(a) == a.index

(* ------------------------- CollaborationRecommender -------------------- *)

\* load_model with knn_model.pkl read before vectorizer.pkl
load_model_KnnFirst(a, cur) ==
    LET s1 == IF a.failAt > 1 THEN [cur EXCEPT !.df = Some(TableOf(a))]
              ELSE cur
        s2 == IF a.failAt > 2
              THEN [s1 EXCEPT !.knn_model = Some(IndexOf(a))] ELSE s1
        s3 == IF a.failAt > 3
              THEN [s2 EXCEPT !.author_vectors = Some(IndexOf(a))] ELSE s2
        s4 == IF a.failAt > 4
              THEN [s3 EXCEPT !.vectorizer = Some(Vocabulary)] ELSE s3
        s5 == IF a.failAt > 5
              THEN [s4 EXCEPT !.max_articles =
                        SeriesMax(s4.df.value, "Articles_Count")]
              ELSE s4
        s6 == IF a.failAt > 6
              THEN [s5 EXCEPT !.max_interests =
                        SeriesMax(s5.df.value, "Interests_Count")]
              ELSE s5
    IN  [s6 EXCEPT !.raised = (a.failAt <= 6)]

\* load_model that appends the corpus table to the rows already held
load_model_Append(a, cur) ==
    LET s1 == IF a.failAt > 1
              THEN [cur EXCEPT !.df =
                        Some((IF cur.df.present THEN cur.df.value
                              ELSE <<>>) \o TableOf(a))]
              ELSE cur
        s2 == IF a.failAt > 2
              THEN [s1 EXCEPT !.vectorizer = Some(Vocabulary)] ELSE s1
        s3 == IF a.failAt > 3
              THEN [s2 EXCEPT !.author_vectors = Some(IndexOf(a))] ELSE s2
        s4 == IF a.failAt > 4
              THEN [s3 EXCEPT !.knn_model = Some(IndexOf(a))] ELSE s3
        s5 == IF a.failAt > 5
              THEN [s4 EXCEPT !.max_articles =
                        SeriesMax(s4.df.value, "Articles_Count")]
              ELSE s4
        s6 == IF a.failAt > 6
              THEN [s5 EXCEPT !.max_interests =
                        SeriesMax(s5.df.value, "Interests_Count")]
              ELSE s5
    IN  [s6 EXCEPT !.raised = (a.failAt <= 6)]

\* the attributes of the engine after load_model(a), as a record; the
\* statements before the one that raises have taken effect
load_model(a, cur) ==
    LET s1 == IF a.failAt > 1 THEN [cur EXCEPT !.df = Some(TableOf(a))]
              ELSE cur
        s2 == IF a.failAt > 2
              THEN [s1 EXCEPT !.vectorizer = Some(Vocabulary)] ELSE s1
        s3 == IF a.failAt > 3
              THEN [s2 EXCEPT !.author_vectors = Some(IndexOf(a))] ELSE s2
        s4 == IF a.failAt > 4
              THEN [s3 EXCEPT !.knn_model = Some(IndexOf(a))] ELSE s3
        s5 == IF a.failAt > 5
              THEN [s4 EXCEPT !.max_articles =
                        SeriesMax(s4.df.value, "Articles_Count")]
              ELSE s4
        s6 == IF a.failAt > 6
              THEN [s5 EXCEPT !.max_interests =
                        SeriesMax(s5.df.value, "Interests_Count")]
              ELSE s5
    IN  [s6 EXCEPT !.raised = (a.failAt <= 6)]

Engine ==
    [df |-> df, vectorizer |-> vectorizer, author_vectors |-> author_vectors,
     knn_model |-> knn_model, max_articles |-> max_articles,
     max_interests |-> max_interests, raised |-> FALSE]

\* most_common(10) keeps this many keywords
KeywordLimit == 10

stop_words == {"research", "study", "analysis", "method", "results",
               "conclusion"}

\* the distinct elements of ws in first-encountered order (the iteration
\* order of a Counter)
RECURSIVE FirstSeen(_)
FirstSeen(ws) ==
    IF ws = <<>> THEN <<>>
    ELSE LET front == FirstSeen(SubSeq(ws, 1, Len(ws) - 1))
             w == ws[Len(ws)]
         IN  IF w \in Range(front) THEN front ELSE Append(front, w)

CountOf(ws, w) == Cardinality({i \in 1..Len(ws) : ws[i] = w})

\* most_common with equal counts in last-encountered order
most_common_LastFirst(ws, n) ==
    LET d == FirstSeen(ws)
        pos(i) == 1 + Cardinality({j \in 1..Len(d) :
                      \/ CountOf(ws, d[j]) > CountOf(ws, d[i])
                      \/ CountOf(ws, d[j]) = CountOf(ws, d[i]) /\ j > i})
        byCount == [p \in 1..Len(d) |->
                       d[CHOOSE i \in 1..Len(d) : pos(i) = p]]
    IN  SubSeq(byCount, 1, Min2(n, Len(d)))

\* Counter(ws).most_common(n): by count descending, equal counts in
\* first-encountered order
most_common(ws, n) ==
    LET d == FirstSeen(ws)
        pos(i) == 1 + Cardinality({j \in 1..Len(d) :
                      \/ CountOf(ws, d[j]) > CountOf(ws, d[i])
                      \/ CountOf(ws, d[j]) = CountOf(ws, d[i]) /\ j < i})
        byCount == [p \in 1..Len(d) |->
                       d[CHOOSE i \in 1..Len(d) : pos(i) = p]]
    IN  SubSeq(byCount, 1, Min2(n, Len(d)))

\* re.findall(r'\b[a-z]{4,}\b', all_text.lower()) over the publications
RECURSIVE FindWords(_)
FindWords(pubs) ==
    IF pubs = <<>> THEN <<>>
    ELSE LET w == pubs[1]
             rest == FindWords(Tail(pubs))
         IN  IF w \in LongWords THEN <<Lower(w)>> \o rest ELSE rest

\* the profile as its sequence of space-separated words
_create_target_profile(interests_list, publications_list) ==
    IF publications_list # <<>>
    THEN LET words == FindWords(publications_list)
             filtered_words == SelectSeq(words,
                                   LAMBDA w : w \notin stop_words)
         IN  interests_list \o most_common(filtered_words, KeywordLimit)
    ELSE interests_list

\* vectorizer.transform: the vocabulary terms the profile contains; the
\* empty set is the zero vector
transform(vocab, profile) ==
    {Lower(profile[i]) : i \in 1..Len(profile)} \cap vocab

\* cosine distance of corpus row i to the query vector; a query without a
\* vocabulary term is the zero vector, at distance 1 from every row
Distance(index, target_vector, i) ==
    IF target_vector = {} THEN Unit
    ELSE Unit - index[i] * (Unit \div 100)

\* knn_model.kneighbors(target_vector, n_neighbors) of sklearn's
\* NearestNeighbors(metric='cosine', algorithm='brute'): the n nearest rows
\* in ascending distance (equal distances in row order); "Expected
\* n_neighbors > 0" for n <= 0 and "Expected n_neighbors <= n_samples_fit"
\* for n above the number of fitted rows are ValueErrors
kneighbors(index, target_vector, n) ==
    IF n <= 0 \/ n > Len(index)
    THEN [raised |-> TRUE, neigh |-> <<>>]
    ELSE LET d(i) == Distance(index, target_vector, i)
             pos(i) == 1 + Cardinality({j \in 1..Len(index) :
                           \/ d(j) < d(i)
                           \/ d(j) = d(i) /\ j < i})
             byDist == [p \in 1..Len(index) |->
                           LET i == CHOOSE i \in 1..Len(index) : pos(i) = p
                           IN  [distance |-> d(i), idx |-> i]]
         IN  [raised |-> FALSE, neigh |-> SubSeq(byDist, 1, n)]

\* x / y in floating point; NaN when x is NaN
FDiv(x, y) == IF x = NaN THEN NaN ELSE (Unit * x) \div y

\* similarity * 0.6 + productivity_score * 0.25 + diversity_score * 0.15
TotalScore(similarity, productivity_score, diversity_score) ==
    IF productivity_score = NaN \/ diversity_score = NaN THEN NaN
    ELSE (60 * similarity + 25 * productivity_score
             + 15 * diversity_score) \div 100

\* the dictionary with str() applied to a missing label
Recommendation_Placeholder(e, similarity, idx) ==
    LET author_data == e.df.value[idx]
        productivity_score ==
            IF e.max_articles > 0
            THEN FDiv(author_data.Articles_Count, e.max_articles) ELSE 0
        diversity_score ==
            IF e.max_interests > 0
            THEN FDiv(author_data.Interests_Count, e.max_interests) ELSE 0
    IN  [author_id |-> author_data.Author_ID,
         author_name |->
             IF author_data.Author_Name.present
             THEN author_data.Author_Name.value ELSE <<"Unknown">>,
         main_interest |->
             IF author_data.Main_Interest.present
             THEN Some(author_data.Main_Interest.value)
             ELSE Some(<<"None">>),
         total_score |->
             TotalScore(similarity, productivity_score, diversity_score),
         similarity_score |-> similarity,
         productivity_score |-> productivity_score,
         diversity_score |-> diversity_score,
         articles_count |->
             IF author_data.Articles_Count # NaN
             THEN author_data.Articles_Count ELSE 0,
         interests_count |->
             IF author_data.Interests_Count # NaN
             THEN author_data.Interests_Count ELSE 0]

\* the dictionary appended for one neighbour
Recommendation(e, similarity, idx) ==
    LET author_data == e.df.value[idx]
        productivity_score ==
            IF e.max_articles > 0
            THEN FDiv(author_data.Articles_Count, e.max_articles) ELSE 0
        diversity_score ==
            IF e.max_interests > 0
            THEN FDiv(author_data.Interests_Count, e.max_interests) ELSE 0
    IN  [author_id |-> author_data.Author_ID,
         author_name |->
             IF author_data.Author_Name.present
             THEN author_data.Author_Name.value ELSE <<"Unknown">>,
         main_interest |->
             IF author_data.Main_Interest.present
             THEN Some(author_data.Main_Interest.value) ELSE None,
         total_score |->
             TotalScore(similarity, productivity_score, diversity_score),
         similarity_score |-> similarity,
         productivity_score |-> productivity_score,
         diversity_score |-> diversity_score,
         articles_count |->
             IF author_data.Articles_Count # NaN
             THEN author_data.Articles_Count ELSE 0,
         interests_count |->
             IF author_data.Interests_Count # NaN
             THEN author_data.Interests_Count ELSE 0]

\* the relevance floor 0.1
Threshold == Unit \div 10

\* the loop without the "if similarity < 0.1: continue" test
RECURSIVE Collect_NoFloor(_, _, _, _, _)
Collect_NoFloor(e, neigh, i, recommendations, top_k) ==
    IF i > Len(neigh) THEN recommendations
    ELSE LET recs == Append(recommendations,
                        Recommendation(e, Unit - neigh[i].distance,
                                       neigh[i].idx))
         IN  IF Len(recs) >= top_k THEN recs
             ELSE Collect_NoFloor(e, neigh, i + 1, recs, top_k)

\* the loop without the "if len(recommendations) >= top_k: break" test
RECURSIVE Collect_All(_, _, _, _, _)
Collect_All(e, neigh, i, recommendations, top_k) ==
    IF i > Len(neigh) THEN recommendations
    ELSE LET similarity == Unit - neigh[i].distance
         IN  IF similarity < Threshold
             THEN Collect_All(e, neigh, i + 1, recommendations, top_k)
             ELSE Collect_All(e, neigh, i + 1,
                      Append(recommendations,
                             Recommendation(e, similarity, neigh[i].idx)),
                      top_k)

\* the for loop over zip(similarities, indices[0]) from neighbour i on
RECURSIVE Collect(_, _, _, _, _)
Collect(e, neigh, i, recommendations, top_k) ==
    IF i > Len(neigh) THEN recommendations
    ELSE LET similarity == Unit - neigh[i].distance
         IN  IF similarity < Threshold
             THEN Collect(e, neigh, i + 1, recommendations, top_k)
             ELSE LET recs == Append(recommendations,
                                Recommendation(e, similarity, neigh[i].idx))
                  IN  IF Len(recs) >= top_k THEN recs
                      ELSE Collect(e, neigh, i + 1, recs, top_k)

\* float <: FALSE when either side is NaN
Lt(x, y) == x # NaN /\ y # NaN /\ x < y

\* list.sort's count_run: the length of the run that starts the list and
\* whether it is strictly descending
RECURSIVE RunEnd(_, _, _)
RunEnd(s, desc, j) ==
    IF j > Len(s) THEN Len(s)
    ELSE IF Lt(s[j].total_score, s[j - 1].total_score) = desc
         THEN RunEnd(s, desc, j + 1)
         ELSE j - 1

\* list.sort's binarysort: the position at which the pivot is inserted
RECURSIVE BinPos(_, _, _, _)
BinPos(s, pivot, l, r) ==
    IF l >= r THEN l
    ELSE LET p == l + ((r - l) \div 2)
         IN  IF Lt(pivot.total_score, s[p].total_score)
             THEN BinPos(s, pivot, l, p)
             ELSE BinPos(s, pivot, p + 1, r)

RECURSIVE BinarySort(_, _)
BinarySort(s, start) ==
    IF start > Len(s) THEN s
    ELSE LET l == BinPos(s, s[start], 1, start)
             moved == SubSeq(s, 1, l - 1) \o <<s[start]>>
                          \o SubSeq(s, l, start - 1)
                          \o SubSeq(s, start + 1, Len(s))
         IN  BinarySort(moved, start + 1)

\* sorted(recommendations, key=total_score, reverse=True) for a list
\* shorter than 64: reverse, stable ascending binary insertion sort after
\* the initial run, reverse
sorted_by_total(recommendations) ==
    IF Len(recommendations) < 2 THEN recommendations
    ELSE LET s == Reverse(recommendations)
             desc == Lt(s[2].total_score, s[1].total_score)
             run == RunEnd(s, desc, 3)
             s1 == IF desc
                   THEN Reverse(SubSeq(s, 1, run))
                            \o SubSeq(s, run + 1, Len(s))
                   ELSE s
         IN  Reverse(BinarySort(s1, run + 1))

\* s[:k]
Prefix(s, k) ==
    IF k >= 0 THEN SubSeq(s, 1, Min2(k, Len(s)))
    ELSE SubSeq(s, 1, Len(s) + k)

\* recommend that neither stops at top_k nor slices the sorted list
recommend_Unbounded(e, interests, publications, top_k) ==
    IF ~e.df.present \/ ~e.vectorizer.present \/ ~e.knn_model.present
    THEN [err |-> "ModelNotLoaded", stage |-> "guard", n_neighbors |-> 0,
          seen |-> <<>>, result |-> <<>>]
    ELSE LET target_profile ==
                 _create_target_profile(interests, publications)
             target_vector == transform(e.vectorizer.value, target_profile)
             n_neighbors == Min2(top_k * OverFetch, Len(e.df.value))
             found == kneighbors(e.knn_model.value, target_vector,
                                 n_neighbors)
         IN  IF found.raised
             THEN [err |-> "ValueError", stage |-> "kneighbors",
                   n_neighbors |-> n_neighbors, seen |-> <<>>,
                   result |-> <<>>]
             ELSE [err |-> "none", stage |-> "return",
                   n_neighbors |-> n_neighbors, seen |-> found.neigh,
                   result |->
                       sorted_by_total(
                           Collect(e, found.neigh, 1, <<>>,
                                   Len(found.neigh) + 1))]

\* recommend that asks the index for every row of the corpus
recommend_AllNeighbors(e, interests, publications, top_k) ==
    IF ~e.df.present \/ ~e.vectorizer.present \/ ~e.knn_model.present
    THEN [err |-> "ModelNotLoaded", stage |-> "guard", n_neighbors |-> 0,
          seen |-> <<>>, result |-> <<>>]
    ELSE LET target_profile ==
                 _create_target_profile(interests, publications)
             target_vector == transform(e.vectorizer.value, target_profile)
             n_neighbors == IF top_k <= 0 THEN top_k * OverFetch
                            ELSE Len(e.df.value)
             found == kneighbors(e.knn_model.value, target_vector,
                                 n_neighbors)
         IN  IF found.raised
             THEN [err |-> "ValueError", stage |-> "kneighbors",
                   n_neighbors |-> n_neighbors, seen |-> <<>>,
                   result |-> <<>>]
             ELSE [err |-> "none", stage |-> "return",
                   n_neighbors |-> n_neighbors, seen |-> found.neigh,
                   result |->
                       Prefix(sorted_by_total(
                           Collect(e, found.neigh, 1, <<>>, top_k)), top_k)]

\* recommend(interests, publications, top_k): the error it raises (with
\* the statement that raised it) or the list it returns
recommend(e, interests, publications, top_k) ==
    IF ~e.df.present \/ ~e.vectorizer.present \/ ~e.knn_model.present
    THEN [err |-> "ModelNotLoaded", stage |-> "guard", n_neighbors |-> 0,
          seen |-> <<>>, result |-> <<>>]
    ELSE LET target_profile ==
                 _create_target_profile(interests, publications)
             target_vector == transform(e.vectorizer.value, target_profile)
             n_neighbors == Min2(top_k * OverFetch, Len(e.df.value))
             found == kneighbors(e.knn_model.value, target_vector,
                                 n_neighbors)
         IN  IF found.raised
             THEN [err |-> "ValueError", stage |-> "kneighbors",
                   n_neighbors |-> n_neighbors, seen |-> <<>>,
                   result |-> <<>>]
             ELSE [err |-> "none", stage |-> "return",
                   n_neighbors |-> n_neighbors, seen |-> found.neigh,
                   result |->
                       Prefix(sorted_by_total(
                           Collect(e, found.neigh, 1, <<>>, top_k)), top_k)]

(* ------------------------------ responses ------------------------------ *)

\* the arguments and the observable outcome of the last operation
NoResp ==
    [op |-> "none", interests |-> <<>>, publications |-> <<>>,
     top_k |-> 0, err |-> "none", stage |-> "none",
     n_neighbors |-> 0, seen |-> <<>>, result |-> <<>>, status |-> 0,
     authors_count |-> 0, model_loaded |-> FALSE,
     artifact |-> [rows |-> <<>>, failAt |-> 0, index |-> <<>>],
     reloaded |-> FALSE,
     user |-> 0, catalog |-> <<>>, pool |-> <<>>, scientists |-> <<>>,
     profile |-> <<>>, payload |-> <<>>]

(* -------------------------------- state -------------------------------- *)

Init ==
    /\ df = None
    /\ vectorizer = None
    /\ author_vectors = None
    /\ knn_model = None
    /\ max_articles = 1
    /\ max_interests = 1
    /\ startup = "pending"
    /\ users = <<>>
    /\ author_interests = <<>>
    /\ last = NoResp

\* lifespan: the one load at startup, inside try/except Exception
Lifespan(a) ==
    /\ startup = "pending"
    /\ LET e == load_model(a, Engine)
       IN  /\ df' = e.df
           /\ vectorizer' = e.vectorizer
           /\ author_vectors' = e.author_vectors
           /\ knn_model' = e.knn_model
           /\ max_articles' = e.max_articles
           /\ max_interests' = e.max_interests
           /\ startup' = IF e.raised THEN "failed" ELSE "loaded"
    /\ last' = [NoResp EXCEPT !.op = "lifespan", !.artifact = a]
    /\ UNCHANGED dbVars

\* GET /health
health_check ==
    /\ startup # "pending"
    /\ last' = [NoResp EXCEPT
                  !.op = "health",
                  !.status = 200,
                  !.authors_count =
                      IF df.present THEN Len(df.value) ELSE 0,
                  !.model_loaded = df.present /\ knn_model.present]
    /\ UNCHANGED <<engineVars, startup, dbVars>>

\* a call of recommend that also rescales max_articles on the object
Recommend_Rescaling(interests, publications, top_k) ==
    /\ \E r \in {recommend(Engine, interests, publications, top_k)} :
           last' = [NoResp EXCEPT
                      !.op = "recommend",
                      !.interests = interests,
                      !.publications = publications,
                      !.top_k = top_k,
                      !.err = r.err,
                      !.stage = r.stage,
                      !.n_neighbors = r.n_neighbors,
                      !.seen = r.seen,
                      !.result = r.result]
    /\ max_articles' = IF max_articles = NaN THEN 1 ELSE max_articles + 1
    /\ UNCHANGED <<df, vectorizer, author_vectors, knn_model, max_interests,
                   startup, dbVars>>

\* a call of recommender.recommend(interests, publications, top_k)
Recommend(interests, publications, top_k) ==
    /\ \E r \in {recommend(Engine, interests, publications, top_k)} :
           last' = [NoResp EXCEPT
                      !.op = "recommend",
                      !.interests = interests,
                      !.publications = publications,
                      !.top_k = top_k,
                      !.err = r.err,
                      !.stage = r.stage,
                      !.n_neighbors = r.n_neighbors,
                      !.seen = r.seen,
                      !.result = r.result]
    /\ UNCHANGED <<engineVars, startup, dbVars>>

\* POST /recommend: the body is validated, then the handler runs
get_recommendations(request) ==
    /\ startup # "pending"
    /\ \E r \in {recommend(Engine, request.interests, request.publications,
                             request.num_recommendations)} :
       LET resp == [NoResp EXCEPT !.op = "post_recommend",
                                  !.interests = request.interests,
                                  !.publications = request.publications,
                                  !.top_k = request.num_recommendations]
       IN  last' =
             IF \/ request.num_recommendations < MinRecommendations
                \/ request.num_recommendations > MaxRecommendations
             THEN [resp EXCEPT !.status = 422, !.stage = "validation"]
             ELSE IF ~df.present \/ ~knn_model.present
             THEN [resp EXCEPT !.status = 503, !.stage = "handler"]
             ELSE IF r.err # "none"
             THEN [resp EXCEPT !.status = 500, !.err = r.err,
                               !.stage = r.stage,
                               !.n_neighbors = r.n_neighbors]
             ELSE [resp EXCEPT !.status = 200, !.stage = r.stage,
                               !.n_neighbors = r.n_neighbors,
                               !.seen = r.seen,
                               !.result = r.result]
    /\ UNCHANGED <<engineVars, startup, dbVars>>

Requests ==
    {[interests |-> q.interests, publications |-> q.publications,
      num_recommendations |-> n] : q \in Queries, n \in NumRecommendations}

Next ==
    \/ \E a \in ArtifactSets : Lifespan(a)
    \/ health_check
    \/ \E q \in Queries, k \in TopKs :
          Recommend(q.interests, q.publications, k)
    \/ \E request \in Requests : get_recommendations(request)

Spec == Init /\ [][Next]_vars

(* ------------------------- repeated load_model ------------------------- *)

\* corpus rows of the artifact sets that are loaded one after another
ReloadRows ==
    {[Articles_Count |-> 2, Interests_Count |-> 2, sim |-> 40,
      Author_Name |-> KnownName, Main_Interest |-> KnownLabel],
     [Articles_Count |-> NaN, Interests_Count |-> 2, sim |-> 10,
      Author_Name |-> KnownName, Main_Interest |-> KnownLabel],
     [Articles_Count |-> 1, Interests_Count |-> 2, sim |-> 40,
      Author_Name |-> KnownName, Main_Interest |-> KnownLabel]}

ReloadArtifactSets == Fitted(SeqsUpTo(ReloadRows, 1), 0..7)

\* a call of recommender.load_model(model_dir) on the live object; reloaded
\* tells that the previous operation loaded the same directory
LoadModel(a) ==
    /\ \E e \in {load_model(a, Engine)} :
          /\ df' = e.df
          /\ vectorizer' = e.vectorizer
          /\ author_vectors' = e.author_vectors
          /\ knn_model' = e.knn_model
          /\ max_articles' = e.max_articles
          /\ max_interests' = e.max_interests
          /\ last' = [NoResp EXCEPT
                        !.op = "load",
                        !.artifact = a,
                        !.reloaded = (last.op = "load" /\ last.artifact = a),
                        !.err = IF e.raised THEN "raised" ELSE "none"]
    /\ UNCHANGED <<startup, dbVars>>

\* queries between the loads
ReloadTopKs == {1, 100}

NextReload ==
    \/ \E a \in ReloadArtifactSets : LoadModel(a)
    \/ \E q \in Queries, k \in ReloadTopKs :
          Recommend(q.interests, q.publications, k)

SpecReload == Init /\ [][NextReload]_vars

(* ------------------------- defective corpus rows ----------------------- *)

\* largest corpus of rows with missing cells
MaxDefectCorpus == 2

\* rows in which each of the name, the label and the two counts can be
\* missing
DefectRows ==
    [Articles_Count : {NaN, 2}, Interests_Count : {NaN, 2}, sim : {40},
     Author_Name : {None, KnownName}, Main_Interest : {None, KnownLabel}]

\* such corpora, loaded without failure
DefectArtifactSets == Fitted(SeqsUpTo(DefectRows, MaxDefectCorpus), {7})

DefectTopKs == {1, 100}

NextDefects ==
    \/ \E a \in DefectArtifactSets : Lifespan(a)
    \/ \E q \in GraphQueries, k \in DefectTopKs :
          Recommend(q.interests, q.publications, k)

SpecDefects == Init /\ [][NextDefects]_vars

(* ----------------------- inconsistent directories ---------------------- *)

\* corpus rows of directories whose parts need not belong together
MixedRows ==
    {[Articles_Count |-> 2, Interests_Count |-> 2, sim |-> 40,
      Author_Name |-> KnownName, Main_Interest |-> KnownLabel],
     [Articles_Count |-> 0, Interests_Count |-> 2, sim |-> 10,
      Author_Name |-> KnownName, Main_Interest |-> KnownLabel]}

\* directories of one or two rows whose index and matrix were fitted on
\* some corpus of at most as many rows, the table's own corpus included
MixedArtifactSets ==
    {a \in {[rows |-> r, failAt |-> f, index |-> SimsOf(x)] :
                r \in SeqsUpTo(MixedRows, 2) \ {<<>>},
                x \in SeqsUpTo(MixedRows, 2) \ {<<>>},
                f \in {4, 7}} :
        Len(a.index) <= Len(a.rows)}

NextMixed ==
    \/ \E a \in MixedArtifactSets : Lifespan(a)
    \/ health_check
    \/ \E q \in GraphQueries, k \in DefectTopKs :
          Recommend(q.interests, q.publications, k)

SpecMixed == Init /\ [][NextMixed]_vars

(* ----------------------------- query profiles -------------------------- *)

\* most words of the publications of a profile, apart from the long list
MaxPubWords == 3

\* words of publications: in and out of the vocabulary, in upper case, a
\* stop word, a word shorter than four letters
PubWords == {"deep", "Deep", "graph", "study", "ml"}

\* twelve distinct words, the last one and the third one twice
LongPublication == ManyWords \o <<"llll", "cccc">>

ProfilePublications ==
    SeqsUpTo(PubWords, MaxPubWords)
        \cup {LongPublication, <<"deep">> \o LongPublication}

ProfileInterests == SeqsUpTo({"deep", "ml"}, 2)

\* the engine before any load, with the arguments of a call at hand
InitProfile ==
    /\ df = None
    /\ vectorizer = None
    /\ author_vectors = None
    /\ knn_model = None
    /\ max_articles = 1
    /\ max_interests = 1
    /\ startup = "pending"
    /\ users = <<>>
    /\ author_interests = <<>>
    /\ \E i \in ProfileInterests, p \in ProfilePublications :
           last = [NoResp EXCEPT !.op = "arguments", !.interests = i,
                                 !.publications = p]

\* a call of _create_target_profile; the profile is kept as the sequence
\* of the parts that ' '.join puts single spaces between
CreateProfile ==
    /\ last.op = "arguments"
    /\ last' = [last EXCEPT
                  !.op = "profile",
                  !.profile = _create_target_profile(last.interests,
                                                     last.publications)]
    /\ UNCHANGED <<engineVars, startup, dbVars>>

NextProfile == CreateProfile

SpecProfile == InitProfile /\ [][NextProfile]_vars

(* ----------------------------- knowledge graph ------------------------- *)

\* largest author_interests table, apart from the crowded ones
MaxAuthors == 2

\* the slice bound of the scientists list
GraphLimit == 100

\* top_k of the recommend call of the graph
GraphTopK == 100

\* external authors are listed under row id + 100000
AuthorIdOffset == 100000

\* A text is a sequence of symbols: a word, a comma or a blank.  These are
\* the values of an interests_list column: NULL or a text.
InterestTexts ==
    {None,
     Some(<<"deep", ",", " ", "ml", ",", " ", "bio">>),
     Some(<<"ml", ",", " ", "bio", ",", " ", "nlp">>),
     Some(<<"deep", ",", "deep", " ", ",", " ", ",", "ml">>)}

\* the symbols in code point order of their first character
SymbolOrder == <<" ", ",", "Deep", "bio", "deep", "ml", "nlp", "study">>

ord(c) == CHOOSE i \in 1..Len(SymbolOrder) : SymbolOrder[i] = c

\* two registered users
UserTables ==
    {[i \in 1..2 |-> [id |-> i, interests_list |-> t[i]]] :
        t \in [1..2 -> InterestTexts]}

\* author_interests rows; author_id is the Author_ID of a corpus row
PlainAuthorTables ==
    {[i \in 1..Len(t) |->
         [id |-> i, author_id |-> i, interests_list |-> t[i]]] :
        t \in SeqsUpTo(InterestTexts, MaxAuthors)}

\* GraphLimit - 1 authors without interests, unknown to the corpus, ahead
\* of two authors with interests
CrowdedAuthorTables ==
    {[i \in 1..(GraphLimit + 1) |->
         IF i < GraphLimit
         THEN [id |-> i, author_id |-> 0 - i, interests_list |-> None]
         ELSE [id |-> i, author_id |-> i + 1 - GraphLimit,
               interests_list |-> t[i + 1 - GraphLimit]]] :
        t \in [1..2 -> InterestTexts \ {None}]}

AuthorTables == PlainAuthorTables \cup CrowdedAuthorTables

\* the artifact sets the graph is served from: an empty corpus, a corpus
\* whose first row scores 0.64, a corpus whose first row has a missing
\* count; loaded completely or up to the index
GraphArtifactSets ==
    Fitted( {<<>>,
             <<[Articles_Count |-> 2, Interests_Count |-> 2, sim |-> 40,
               Author_Name |-> KnownName, Main_Interest |-> KnownLabel],
               [Articles_Count |-> 0, Interests_Count |-> 2, sim |-> 5,
                Author_Name |-> KnownName, Main_Interest |-> KnownLabel]>>,
             <<[Articles_Count |-> NaN, Interests_Count |-> 2, sim |-> 40,
               Author_Name |-> KnownName, Main_Interest |-> KnownLabel],
               [Articles_Count |-> 2, Interests_Count |-> 2, sim |-> 10,
                Author_Name |-> KnownName, Main_Interest |-> KnownLabel]>>},
     {4, 7})

\* text.split(',')
RECURSIVE split(_)
split(text) ==
    IF \A i \in 1..Len(text) : text[i] # ","
    THEN <<text>>
    ELSE LET i == CHOOSE k \in 1..Len(text) :
                      /\ text[k] = ","
                      /\ \A j \in 1..(k - 1) : text[j] # ","
         IN  <<SubSeq(text, 1, i - 1)>>
                 \o split(SubSeq(text, i + 1, Len(text)))

\* text.strip()
RECURSIVE strip(_)
strip(text) ==
    IF text # <<>> /\ Head(text) = " " THEN strip(Tail(text))
    ELSE IF text # <<>> /\ text[Len(text)] = " "
    THEN strip(SubSeq(text, 1, Len(text) - 1))
    ELSE text

\* [i.strip() for i in column.split(',') if i.strip()], and [] when the
\* column is NULL or empty
ParseInterests(column) ==
    IF ~column.present \/ column.value = <<>> THEN <<>>
    ELSE LET parts == split(column.value)
         IN  SelectSeq([i \in 1..Len(parts) |-> strip(parts[i])],
                       LAMBDA part : part # <<>>)

\* str < str
RECURSIVE TextLt(_, _)
TextLt(a, b) ==
    IF b = <<>> THEN FALSE
    ELSE IF a = <<>> THEN TRUE
    ELSE IF Head(a) = Head(b) THEN TextLt(Tail(a), Tail(b))
    ELSE ord(Head(a)) < ord(Head(b))

\* sorted(keys) of a set of texts
RECURSIVE sorted_texts(_)
sorted_texts(S) ==
    IF S = {} THEN <<>>
    ELSE LET m == CHOOSE x \in S : \A y \in S \ {x} : TextLt(x, y)
         IN  <<m>> \o sorted_texts(S \ {m})

\* one member per mention of the interest instead of one per entity
interest_to_users_Mentions(interest) ==
    UNION {{<<"user", users[i].id, j>> :
               j \in {k \in 1..Len(ParseInterests(users[i].interests_list)) :
                         ParseInterests(users[i].interests_list)[k]
                             = interest}} :
           i \in 1..Len(users)}
    \cup
    UNION {{<<"author", author_interests[i].id, j>> :
               j \in {k \in 1..Len(ParseInterests(
                                       author_interests[i].interests_list)) :
                         ParseInterests(
                             author_interests[i].interests_list)[k]
                             = interest}} :
           i \in 1..Len(author_interests)}

\* interest_to_users[interest]: the users and authors whose column is not
\* NULL and lists the interest
interest_to_users(interest) ==
    {<<"user", users[i].id>> : i \in
        {k \in 1..Len(users) :
            interest \in Range(ParseInterests(users[k].interests_list))}}
    \cup
    {<<"author", author_interests[i].id>> : i \in
        {k \in 1..Len(author_interests) :
            interest \in
                Range(ParseInterests(author_interests[k].interests_list))}}

unique_interests ==
    sorted_texts(
        UNION {Range(ParseInterests(users[i].interests_list)) :
                  i \in 1..Len(users)}
        \cup
        UNION {Range(ParseInterests(author_interests[i].interests_list)) :
                  i \in 1..Len(author_interests)})

\* interest_id_map[interest], from the sorted catalog names
interest_id_map(names, interest) ==
    CHOOSE i \in 1..Len(names) : names[i] = interest

\* the ids of the interests of a list that are in interest_id_map
interests_ids(names, interest_list) ==
    LET known == SelectSeq(interest_list, LAMBDA x : x \in Range(names))
    IN  [i \in 1..Len(known) |-> interest_id_map(names, known[i])]

\* the overlap as a share of the current user's interests only
jaccard_OfCurrent(current_user_interests, interest_list) ==
    IF current_user_interests # <<>> /\ interest_list # <<>>
    THEN (Unit * Cardinality(Range(current_user_interests)
                                 \cap Range(interest_list)))
             \div Cardinality(Range(current_user_interests))
    ELSE 0

\* similarity_score of the current user's and an entity's interest lists
jaccard(current_user_interests, interest_list) ==
    IF current_user_interests # <<>> /\ interest_list # <<>>
    THEN LET common_interests ==
                 Range(current_user_interests) \cap Range(interest_list)
             total_interests ==
                 Range(current_user_interests) \cup Range(interest_list)
         IN  (Unit * Cardinality(common_interests))
                 \div Cardinality(total_interests)
    ELSE 0

\* the words the vectorizer finds in the profile ' '.join(interests)
RECURSIVE WordsOf(_)
WordsOf(interest_list) ==
    IF interest_list = <<>> THEN <<>>
    ELSE SelectSeq(Head(interest_list), LAMBDA c : c \notin {",", " "})
             \o WordsOf(Tail(interest_list))

\* the model score replacing the overlap score
PyMax_Second(a, b) == b

\* max(a, b) of Python: b only when b > a
PyMax(a, b) == IF Lt(a, b) THEN b ELSE a

\* the engine consulted without the try/except around recommend
ml_recommendations_Uncaught(current_user_interests) ==
    IF current_user_interests # <<>> /\ df.present /\ knn_model.present
    THEN LET r == recommend(Engine, WordsOf(current_user_interests), <<>>,
                            GraphTopK)
         IN  [raised |-> r.err # "none", recs |-> r.result]
    ELSE [raised |-> FALSE, recs |-> <<>>]

\* ml_recommendations, [] when the engine is not consulted or raises, and
\* whether an exception leaves the block
ml_recommendations(current_user_interests) ==
    IF current_user_interests # <<>> /\ df.present /\ knn_model.present
    THEN LET r == recommend(Engine, WordsOf(current_user_interests), <<>>,
                            GraphTopK)
         IN  [raised |-> FALSE,
              recs |-> IF r.err = "none" THEN r.result ELSE <<>>]
    ELSE [raised |-> FALSE, recs |-> <<>>]

\* recommendation_scores[author_id]; the last entry of an id wins
recommendation_scores(ml, author_id) ==
    LET k == CHOOSE i \in 1..Len(ml) :
                 /\ ml[i].author_id = author_id
                 /\ \A j \in (i + 1)..Len(ml) : ml[j].author_id # author_id
    IN  ml[k].total_score

user_scientists_with_scores(names, current_user, current_user_interests) ==
    LET all_users == SelectSeq(users, LAMBDA u : u.id # current_user.id)
    IN  [i \in 1..Len(all_users) |->
            LET user_interest_list ==
                    ParseInterests(all_users[i].interests_list)
            IN  [id |-> all_users[i].id,
                 interests |-> interests_ids(names, user_interest_list),
                 type |-> "user",
                 score |-> jaccard(current_user_interests,
                                   user_interest_list)]]

author_scientists_with_scores(names, current_user_interests, ml) ==
    [i \in 1..Len(author_interests) |->
        LET ai == author_interests[i]
            author_interest_list == ParseInterests(ai.interests_list)
            similarity_score ==
                jaccard(current_user_interests, author_interest_list)
        IN  [id |-> ai.id + AuthorIdOffset,
             interests |-> interests_ids(names, author_interest_list),
             type |-> "author",
             score |->
                 IF \E k \in 1..Len(ml) : ml[k].author_id = ai.author_id
                 THEN PyMax(similarity_score,
                            recommendation_scores(ml, ai.author_id))
                 ELSE similarity_score]]

\* the entries by descending score, those of one score in list order
RECURSIVE by_score(_, _)
by_score(all_scientists, scores) ==
    IF scores = {} THEN <<>>
    ELSE LET m == CHOOSE x \in scores : \A y \in scores : y <= x
         IN  SelectSeq(all_scientists, LAMBDA x : x.score = m)
                 \o by_score(all_scientists, scores \ {m})

\* all_scientists as it is built, without the sort
unsorted_scientists(all_scientists) == all_scientists

\* all_scientists.sort(key=score, reverse=True): stable, and the scores
\* are never missing
sort_by_score(all_scientists) ==
    by_score(all_scientists,
             {all_scientists[i].score : i \in 1..Len(all_scientists)})

\* GET /knowledge-graph of an authenticated user.  pool is the sorted
\* all_scientists list and result the engine's answer, both internal to
\* the handler; names and usernames are left out.  An exception that
\* reaches the outer handler is answered with 500.
get_knowledge_graph(current_user) ==
    /\ startup # "pending"
    /\ LET current_user_interests ==
               ParseInterests(current_user.interests_list)
       IN  \E names \in {unique_interests} :
           \E found \in {ml_recommendations(current_user_interests)} :
           \E ml \in {found.recs} :
           \E all_scientists \in
                  {sort_by_score(
                       user_scientists_with_scores(names, current_user,
                                                   current_user_interests)
                       \o author_scientists_with_scores(
                              names, current_user_interests, ml))} :
               last' =
                 IF found.raised
                 THEN [NoResp EXCEPT !.op = "graph", !.status = 500,
                                     !.user = current_user.id]
                 ELSE
                   [NoResp EXCEPT
                   !.op = "graph",
                   !.status = 200,
                   !.user = current_user.id,
                   !.result = ml,
                   !.catalog =
                       [i \in 1..Len(names) |->
                           [id |-> i,
                            name |-> names[i],
                            scientist_count |->
                                Cardinality(interest_to_users(names[i]))]],
                   !.pool = all_scientists,
                   !.scientists =
                       LET selected_scientists ==
                               Prefix(all_scientists,
                                      Min2(GraphLimit, Len(all_scientists)))
                       IN  [i \in 1..Len(selected_scientists) |->
                               [id |-> selected_scientists[i].id,
                                interests |->
                                    selected_scientists[i].interests]]]
    /\ UNCHANGED <<engineVars, startup, dbVars>>

InitGraph ==
    /\ df = None
    /\ vectorizer = None
    /\ author_vectors = None
    /\ knn_model = None
    /\ max_articles = 1
    /\ max_interests = 1
    /\ startup = "pending"
    /\ users \in UserTables
    /\ author_interests \in AuthorTables
    /\ last = NoResp

GraphRequests ==
    {[interests |-> q.interests, publications |-> q.publications,
      num_recommendations |-> 1] : q \in GraphQueries}

NextGraph ==
    \/ \E a \in GraphArtifactSets : Lifespan(a)
    \/ \E u \in 1..Len(users) : get_knowledge_graph(users[u])
    \/ health_check
    \/ \E q \in GraphQueries : Recommend(q.interests, q.publications, 1)
    \/ \E request \in GraphRequests : get_recommendations(request)

SpecGraph == InitGraph /\ [][NextGraph]_vars

(* ------------------------ a long-lived users table --------------------- *)

\* users tables after more than AuthorIdOffset registrations: the rows that
\* are left are the first user and the user registered as number
\* AuthorIdOffset + 1
LateUserTables ==
    {<<[id |-> 1, interests_list |-> t[1]],
       [id |-> AuthorIdOffset + 1, interests_list |-> t[2]]>> :
        t \in [1..2 -> InterestTexts]}

InitLate ==
    /\ df = None
    /\ vectorizer = None
    /\ author_vectors = None
    /\ knn_model = None
    /\ max_articles = 1
    /\ max_interests = 1
    /\ startup = "pending"
    /\ users \in LateUserTables
    /\ author_interests \in PlainAuthorTables
    /\ last = NoResp

SpecLate == InitLate /\ [][NextGraph]_vars

(* --------------------------- stored interests -------------------------- *)

\* longest interests_list of a PUT /users/interests payload
MaxPayload == 2

\* interest strings: two plain ones, one with a comma inside, one with a
\* leading blank
PayloadTexts ==
    {<<"deep">>, <<"ml">>, <<"deep", ",", "ml">>, <<" ", "deep">>}

Payloads == SeqsUpTo(PayloadTexts, MaxPayload)

\* the logins of the payloads: the one of user 1, and one nobody has
Logins == {1, 2}

\* sep.join(parts)
RECURSIVE join(_, _)
join(sep, parts) ==
    IF parts = <<>> THEN <<>>
    ELSE IF Len(parts) = 1 THEN parts[1]
    ELSE parts[1] \o sep \o join(sep, Tail(parts))

\* PUT /users/interests: 404 for an unknown login; otherwise the joined
\* list (NULL for an empty list) is stored, or the commit fails and is
\* rolled back
update_user_interests(login, interests_list, commits) ==
    IF \A i \in 1..Len(users) : users[i].id # login
    THEN /\ last' = [NoResp EXCEPT !.op = "update", !.status = 404,
                                   !.payload = interests_list]
         /\ UNCHANGED <<engineVars, startup, dbVars>>
    ELSE LET u == CHOOSE i \in 1..Len(users) : users[i].id = login
             interests_string ==
                 IF interests_list # <<>>
                 THEN Some(join(<<",", " ">>, interests_list))
                 ELSE None
         IN  /\ users' = IF commits
                         THEN [users EXCEPT
                                  ![u].interests_list = interests_string]
                         ELSE users
             /\ last' = [NoResp EXCEPT
                           !.op = "update",
                           !.status = IF commits THEN 200 ELSE 500,
                           !.user = login,
                           !.payload = interests_list]
             /\ UNCHANGED <<engineVars, startup, author_interests>>

\* one registered user without interests, no external authors
InitInterests ==
    /\ df = None
    /\ vectorizer = None
    /\ author_vectors = None
    /\ knn_model = None
    /\ max_articles = 1
    /\ max_interests = 1
    /\ startup = "pending"
    /\ users = <<[id |-> 1, interests_list |-> None]>>
    /\ author_interests = <<>>
    /\ last = NoResp

NextInterests ==
    \/ \E a \in Fitted({<<>>}, {7}) : Lifespan(a)
    \/ \E login \in Logins, l \in Payloads, commits \in BOOLEAN :
          update_user_interests(login, l, commits)
    \/ \E u \in 1..Len(users) : get_knowledge_graph(users[u])

SpecInterests == InitInterests /\ [][NextInterests]_vars

(* ------------------------------ properties ----------------------------- *)

\* the last operation was a call of recommend, direct or through
\* POST /recommend, that returned a list
Returned ==
    /\ last.op \in {"recommend", "post_recommend"}
    /\ last.stage = "return"

\* similarity 1 - distance of a retrieved neighbour, in hundredths
SimOf(nb) == ((Unit - nb.distance) * 100) \div Unit

\* float >=: FALSE when either side is NaN
Ge(x, y) == x # NaN /\ y # NaN /\ x >= y

\* the engine's own precondition of recommend
EngineLoaded == df.present /\ vectorizer.present /\ knn_model.present

\* C1: every entry of a list returned by recommend, for top_k >= 1, has
\* similarity_score >= 0.1; a neighbour of similarity 0.05 is not in it.
C1_SimilarityFloor ==
    (Returned /\ last.top_k >= 1) =>
        /\ \A i \in 1..Len(last.result) :
              last.result[i].similarity_score * 10 >= Unit
        /\ \A j \in 1..Len(last.seen) :
              SimOf(last.seen[j]) = 5 =>
                  \A i \in 1..Len(last.result) :
                      last.result[i].author_id # last.seen[j].idx

\* a call that retrieved a neighbour of similarity 0.05 with the largest
\* article count of the corpus, and returned somebody else
C1_Witness ==
    /\ Returned
    /\ last.top_k >= 1
    /\ last.result # <<>>
    /\ \E j \in 1..Len(last.seen) :
          /\ SimOf(last.seen[j]) = 5
          /\ df.value[last.seen[j].idx].Articles_Count = max_articles
          /\ max_articles > 0

\* C2: a list returned by recommend for top_k >= 1 has at most top_k
\* entries and at most as many entries as the corpus has rows.
C2_AtMostTopK ==
    (Returned /\ last.top_k >= 1) =>
        /\ Len(last.result) <= last.top_k
        /\ Len(last.result) <= Len(df.value)

\* a call with top_k = 1 that retrieved two neighbours above the floor
C2_Witness ==
    /\ Returned
    /\ last.top_k = 1
    /\ Len(last.result) = 1
    /\ Cardinality({j \in 1..Len(last.seen) :
                       SimOf(last.seen[j]) >= 10}) >= 2

\* C3: a list returned by a successfully loaded engine is sorted by
\* total_score, non-increasing, also when rows of the corpus miss a numeric
\* field.
C3_SortedByTotal ==
    (Returned /\ startup = "loaded") =>
        \A i \in 1..(Len(last.result) - 1) :
            Ge(last.result[i].total_score, last.result[i + 1].total_score)

\* C4: a recommend call (with a top_k the request layer admits) made before
\* the load or after a load that raised ends in ModelNotLoaded, and
\* POST /recommend answers 503; no list is returned.
C4_NotLoadedRaises ==
    (startup \in {"pending", "failed"} /\ last.top_k >= 1) =>
        /\ ~Returned
        /\ last.op = "recommend" => last.err = "ModelNotLoaded"
        /\ (last.op = "post_recommend" /\ last.status # 422) =>
               last.status = 503

\* C5: after a load_model that raised, none of df, vectorizer,
\* author_vectors and knn_model is set and the engine is not loaded.
C5_NoPartialState ==
    startup = "failed" =>
        /\ ~df.present
        /\ ~vectorizer.present
        /\ ~author_vectors.present
        /\ ~knn_model.present
        /\ ~EngineLoaded

\* C6: /health reports authors_count = 0 whenever it reports
\* model_loaded = false.
C6_HealthCountZeroWhenUnloaded ==
    (last.op = "health" /\ ~last.model_loaded) => last.authors_count = 0

\* C7: /health reports model_loaded = true only when the corpus table, the
\* vectorizer and the neighbour index are all present, and a recommend call
\* in a state where the flag would be true does not raise ModelNotLoaded.
C7_HealthAgreesWithEngine ==
    /\ (last.op = "health" /\ last.model_loaded) => EngineLoaded
    /\ (df.present /\ knn_model.present) =>
           (last.op \in {"recommend", "post_recommend"} =>
                /\ last.err # "ModelNotLoaded"
                /\ last.status # 503)

\* /health answered model_loaded = true on a loaded engine
C7_Witness ==
    /\ last.op = "health"
    /\ last.model_loaded
    /\ EngineLoaded
    /\ last.authors_count = Len(df.value)

\* C8: after a startup load that raised, the service is up and /health
\* reports model_loaded = false.
C8_FailedStartupReportsUnloaded ==
    (startup = "failed" /\ last.op = "health") =>
        /\ last.status = 200
        /\ ~last.model_loaded

\* C9: on an engine loaded with an empty corpus, recommend with top_k >= 1
\* computes n_neighbors = 0 and returns the empty list without raising.
C9_EmptyCorpusReturnsEmpty ==
    (/\ last.op = "recommend"
     /\ last.top_k >= 1
     /\ startup = "loaded"
     /\ Len(df.value) = 0) =>
        /\ last.n_neighbors = 0
        /\ last.err = "none"
        /\ last.result = <<>>

C11_EmptyInterestsRejected ==
    (/\ last.op \in {"recommend", "post_recommend"}
     /\ last.interests = <<>>
     /\ last.publications = <<>>
     /\ last.top_k >= 1
     /\ last.top_k <= MaxRecommendations
     /\ startup = "loaded"
     /\ df.value # <<>>) =>
        /\ ~Returned
        /\ last.op = "post_recommend" => last.status = 422

\* the positions in the retrieved neighbours of those at or above the floor
Passing == {j \in 1..Len(last.seen) : (Unit - last.seen[j].distance) * 10 >= Unit}

\* the first top_k of them in distance order
FirstPassing ==
    {j \in Passing : Cardinality({i \in Passing : i < j}) < last.top_k}

\* C18: the authors returned by recommend are exactly the first top_k
\* retrieved neighbours, in distance order, that pass the 0.1 floor.
C18_FirstTopKInDistanceOrder ==
    (Returned /\ last.top_k >= 1) =>
        /\ Len(last.result) = Cardinality(FirstPassing)
        /\ {last.result[i].author_id : i \in 1..Len(last.result)} =
               {last.seen[j].idx : j \in FirstPassing}

\* a neighbour above the floor was left out although its total_score
\* exceeds the total_score of every returned entry
C18_Witness ==
    /\ Returned
    /\ last.top_k >= 1
    /\ last.result # <<>>
    /\ \E j \in Passing \ FirstPassing :
          LET t == Recommendation(Engine, Unit - last.seen[j].distance,
                                  last.seen[j].idx).total_score
          IN  \A i \in 1..Len(last.result) :
                  /\ last.result[i].total_score # NaN
                  /\ t > last.result[i].total_score

\* C19: recommend asks the index for exactly min(top_k * 10, corpus size)
\* neighbours, so it examines at most corpus-size and at most 10 * top_k
\* candidates.
C19_NeighbourCount ==
    (/\ last.op \in {"recommend", "post_recommend"}
     /\ last.stage \in {"kneighbors", "return"}) =>
        /\ last.n_neighbors =
               (IF last.top_k * 10 <= Len(df.value) THEN last.top_k * 10
                ELSE Len(df.value))
        /\ Returned =>
               /\ Len(last.seen) = last.n_neighbors
               /\ Len(last.seen) <= Len(df.value)
               /\ Len(last.seen) <= 10 * last.top_k

\* a call that retrieved 10 neighbours from a corpus of more than 10 rows
C19_Witness ==
    /\ Returned
    /\ last.top_k = 1
    /\ Len(df.value) > 10
    /\ Len(last.seen) = 10

\* the largest present cell of a column of the loaded corpus, 0 when no
\* cell is present
CorpusMax(col) ==
    LET cells == {df.value[i][col] : i \in 1..Len(df.value)} \ {NaN}
    IN  IF cells = {} THEN 0
        ELSE CHOOSE x \in cells : \A y \in cells : y <= x

\* C20: on a successfully loaded engine every returned entry has
\* productivity_score = articles_count / corpus maximum (0 when the maximum
\* is 0), diversity_score likewise from interests_count, and total_score =
\* 0.6 similarity + 0.25 productivity + 0.15 diversity; similarity 1 with
\* both counts at the maxima gives 1, 1 and 1.
C20_ScoreFormula ==
    (Returned /\ startup = "loaded") =>
        \A i \in 1..Len(last.result) :
            LET r == last.result[i]
                ma == CorpusMax("Articles_Count")
                mi == CorpusMax("Interests_Count")
            IN  /\ IF ma > 0
                   THEN r.productivity_score * ma = Unit * r.articles_count
                   ELSE r.productivity_score = 0
                /\ IF mi > 0
                   THEN r.diversity_score * mi = Unit * r.interests_count
                   ELSE r.diversity_score = 0
                /\ 100 * r.total_score =
                       60 * r.similarity_score + 25 * r.productivity_score
                           + 15 * r.diversity_score
                /\ (/\ r.similarity_score = Unit
                    /\ r.articles_count = ma /\ ma > 0
                    /\ r.interests_count = mi /\ mi > 0) =>
                       /\ r.productivity_score = Unit
                       /\ r.diversity_score = Unit
                       /\ r.total_score = Unit

\* C13: a load_model of the artifact set that the previous operation
\* loaded leaves df, vectorizer, author_vectors, knn_model, max_articles
\* and max_interests as they were after the first load, so every query
\* gets the same answer as after a single load.
C13_LoadIdempotent ==
    [][(last'.op = "load" /\ last'.reloaded) =>
          /\ UNCHANGED engineVars
          /\ \A q \in Queries, k \in ReloadTopKs :
                recommend(Engine', q.interests, q.publications, k) =
                    recommend(Engine, q.interests, q.publications, k)]_vars

\* a second successful load in a row of a non-empty artifact set
C13_Witness ==
    /\ last.op = "load"
    /\ last.reloaded
    /\ last.err = "none"
    /\ df.present /\ df.value # <<>>

\* the serving operations
Serving == {"recommend", "post_recommend", "health", "graph"}

InterestSet(column) == Range(ParseInterests(column))

\* the row of the users table of the user the graph was drawn for
CurrentUser ==
    users[CHOOSE i \in 1..Len(users) : users[i].id = last.user]

\* the table row a pool entry stands for
EntityOf(entry) ==
    IF entry.type = "user"
    THEN users[CHOOSE i \in 1..Len(users) : users[i].id = entry.id]
    ELSE author_interests[CHOOSE i \in 1..Len(author_interests) :
             author_interests[i].id + 100000 = entry.id]

\* the entry is an author of the engine's answer
Recommended(entry) ==
    /\ entry.type = "author"
    /\ \E k \in 1..Len(last.result) :
          last.result[k].author_id = EntityOf(entry).author_id

\* score is |A \cap B| / |A \cup B|, and 0 when a side is empty
IsOverlap(A, B, score) ==
    IF A = {} \/ B = {} THEN score = 0
    ELSE score * Cardinality(A \cup B) = Unit * Cardinality(A \cap B)

\* C14: every registered user of the graph, and every external author the
\* engine did not recommend, is scored |A \cap B| / |A \cup B| against the
\* active user's interest set A, and 0 when A or B is empty.
C14_OverlapScore ==
    last.op = "graph" =>
        \A i \in 1..Len(last.pool) :
            ~Recommended(last.pool[i]) =>
                IsOverlap(InterestSet(CurrentUser.interests_list),
                          InterestSet(EntityOf(last.pool[i]).interests_list),
                          last.pool[i].score)

\* a user sharing 2 of 4 combined interests scores 0.5, next to an author
\* with the active user's own interests who scores 1
C14_Witness ==
    /\ last.op = "graph"
    /\ \E i, j \in 1..Len(last.pool) :
          /\ last.pool[i].type = "user"
          /\ last.pool[i].score * 2 = Unit
          /\ Cardinality(InterestSet(CurrentUser.interests_list) \cup
                 InterestSet(EntityOf(last.pool[i]).interests_list)) = 4
          /\ last.pool[j].type = "author"
          /\ ~Recommended(last.pool[j])
          /\ last.pool[j].score = Unit

\* the overlap score of a pool entry
OverlapOf(entry) ==
    LET A == InterestSet(CurrentUser.interests_list)
        B == InterestSet(EntityOf(entry).interests_list)
    IN  IF A = {} \/ B = {} THEN 0
        ELSE (Unit * Cardinality(A \cap B)) \div Cardinality(A \cup B)

\* the total_score the engine gave the author of a pool entry
TotalOf(entry) ==
    LET k == CHOOSE k \in 1..Len(last.result) :
                 last.result[k].author_id = EntityOf(entry).author_id
    IN  last.result[k].total_score

\* C15: an author of the engine's answer is scored the larger of its
\* overlap score and its total_score (its overlap score when total_score
\* is missing), never less than its overlap score; every other entity is
\* scored its overlap score.
C15_ModelScoreOnlyRaises ==
    last.op = "graph" =>
        \A i \in 1..Len(last.pool) :
            LET entry == last.pool[i]
            IN  IF Recommended(entry)
                THEN /\ entry.score >= OverlapOf(entry)
                     /\ entry.score \in {OverlapOf(entry), TotalOf(entry)}
                     /\ TotalOf(entry) # NaN =>
                            entry.score >= TotalOf(entry)
                ELSE entry.score = OverlapOf(entry)

\* one recommended author is lifted above a positive overlap score, or
\* keeps an overlap score above its total_score
C15_Witness ==
    /\ last.op = "graph"
    /\ \E i \in 1..Len(last.pool) :
          /\ Recommended(last.pool[i])
          /\ OverlapOf(last.pool[i]) > 0
          /\ TotalOf(last.pool[i]) > OverlapOf(last.pool[i])
          /\ last.pool[i].score = TotalOf(last.pool[i])
    /\ \E j \in 1..Len(last.pool) :
          /\ Recommended(last.pool[j])
          /\ TotalOf(last.pool[j]) = NaN
          /\ last.pool[j].score = OverlapOf(last.pool[j])

\* the ids the pool has to hold: every other user, every author
PoolIds ==
    {users[i].id : i \in {k \in 1..Len(users) : users[k].id # last.user}}
    \cup {author_interests[i].id + 100000 : i \in 1..Len(author_interests)}

\* C16: the scientist list is drawn from all other users and all authors,
\* is in descending order of final score and has at most 100 entries, and
\* no entity left out scores higher than a listed one.
C16_TopHundredByScore ==
    last.op = "graph" =>
        /\ {last.pool[i].id : i \in 1..Len(last.pool)} = PoolIds
        /\ Len(last.pool) = Cardinality(PoolIds)
        /\ Len(last.scientists) =
               (IF Len(last.pool) <= 100 THEN Len(last.pool) ELSE 100)
        /\ \A i \in 1..Len(last.scientists) :
               last.scientists[i].id = last.pool[i].id
        /\ \A i \in 1..Len(last.scientists) :
               \A j \in (i + 1)..Len(last.pool) :
                   last.pool[j].score <= last.pool[i].score

\* more than 100 entities, and the list starts with an entity that scores
\* above one that is left out
C16_Witness ==
    /\ last.op = "graph"
    /\ Len(last.pool) > 100
    /\ Len(last.scientists) = 100
    /\ last.pool[1].score > last.pool[Len(last.pool)].score
    /\ last.pool[1].type = "author"

\* every interest some user or author lists
AllInterests ==
    UNION {InterestSet(users[i].interests_list) : i \in 1..Len(users)}
    \cup UNION {InterestSet(author_interests[i].interests_list) :
                   i \in 1..Len(author_interests)}

\* C17: the interest catalog holds every listed interest once, in
\* ascending string order with ids 1..n, and scientist_count is the
\* number of users plus the number of authors that list the interest.
C17_InterestCatalog ==
    last.op = "graph" =>
        /\ {last.catalog[i].name : i \in 1..Len(last.catalog)}
               = AllInterests
        /\ \A i \in 1..Len(last.catalog) :
               /\ last.catalog[i].id = i
               /\ i < Len(last.catalog) =>
                      TextLt(last.catalog[i].name, last.catalog[i + 1].name)
               /\ last.catalog[i].scientist_count =
                      Cardinality({k \in 1..Len(users) :
                          last.catalog[i].name \in
                              InterestSet(users[k].interests_list)})
                      + Cardinality({k \in 1..Len(author_interests) :
                          last.catalog[i].name \in
                              InterestSet(
                                  author_interests[k].interests_list)})

\* four interests, one of them listed twice by one entity and counted for
\* a user and an author
C17_Witness ==
    /\ last.op = "graph"
    /\ Len(last.catalog) = 4
    /\ \E i \in 1..Len(users) :
          LET l == ParseInterests(users[i].interests_list)
          IN  /\ Len(l) > Cardinality(Range(l))
              /\ \E k \in 1..Len(last.catalog) :
                    /\ last.catalog[k].name \in Range(l)
                    /\ last.catalog[k].scientist_count >= 2
                    /\ \E a \in 1..Len(author_interests) :
                          last.catalog[k].name \in InterestSet(
                              author_interests[a].interests_list)

\* the corpus row a returned entry was made from
RowOf(r) == df.value[r.author_id]

\* C21: on a successfully loaded engine, a returned entry whose
\* Articles_Count (Interests_Count) cell is missing reports the count 0,
\* has productivity_score (diversity_score) 0 and a total_score computed
\* from that 0.
C21_MissingCountIsZero ==
    (Returned /\ startup = "loaded") =>
        \A i \in 1..Len(last.result) :
            LET r == last.result[i]
            IN  /\ RowOf(r).Articles_Count = NaN =>
                       /\ r.articles_count = 0
                       /\ r.productivity_score = 0
                /\ RowOf(r).Interests_Count = NaN =>
                       /\ r.interests_count = 0
                       /\ r.diversity_score = 0
                /\ (\/ RowOf(r).Articles_Count = NaN
                    \/ RowOf(r).Interests_Count = NaN) =>
                       100 * r.total_score =
                           60 * r.similarity_score
                               + 25 * r.productivity_score
                               + 15 * r.diversity_score

C23_InconsistentSetRejected ==
    (/\ last.op = "lifespan"
     /\ last.artifact.index # SimsOf(last.artifact.rows)) =>
        /\ startup = "failed"
        /\ ~(df.present /\ knn_model.present)

\* the answer of the engine to the graph's query raises
EngineRaises ==
    recommend(Engine, WordsOf(ParseInterests(CurrentUser.interests_list)),
              <<>>, 100).err # "none"

\* C24: when df or knn_model is absent, or recommend raises, or the active
\* user has no interests, the knowledge graph is answered with 200 and
\* every entity has its overlap score.
C24_GraphFallsBack ==
    (/\ last.op = "graph"
     /\ \/ ~df.present
        \/ ~knn_model.present
        \/ EngineRaises
        \/ ParseInterests(CurrentUser.interests_list) = <<>>) =>
        /\ last.status = 200
        /\ Len(last.pool) = Cardinality(PoolIds)
        /\ \A i \in 1..Len(last.pool) :
               last.pool[i].score = OverlapOf(last.pool[i])

\* a graph drawn while the loaded engine raises on the user's query, with
\* an author scored above 0
C24_Witness ==
    /\ last.op = "graph"
    /\ df.present /\ knn_model.present
    /\ ParseInterests(CurrentUser.interests_list) # <<>>
    /\ EngineRaises
    /\ last.status = 200
    /\ \E i \in 1..Len(last.pool) :
          last.pool[i].type = "author" /\ last.pool[i].score > 0

\* the profile parts after the interests
KeywordsOf == SubSeq(last.profile, Len(last.interests) + 1, Len(last.profile))

\* the positions of the publication words that count as lower-case word w
Mentions(w) ==
    {i \in 1..Len(last.publications) :
        /\ last.publications[i] \in LongWords
        /\ Lower(last.publications[i]) = w}

FirstMention(w) == CHOOSE i \in Mentions(w) : \A j \in Mentions(w) : i <= j

\* w comes before v: it is more frequent, or as frequent and met earlier
Before(w, v) ==
    \/ Cardinality(Mentions(w)) > Cardinality(Mentions(v))
    \/ /\ Cardinality(Mentions(w)) = Cardinality(Mentions(v))
       /\ FirstMention(w) < FirstMention(v)

\* the lower-cased words of at least four letters that are no stop words
Eligible ==
    {Lower(last.publications[i]) :
        i \in {k \in 1..Len(last.publications) :
                  last.publications[k] \in LongWords}}
    \ {"research", "study", "analysis", "method", "results", "conclusion"}

\* C25: the profile starts with the interests as given (order and
\* duplicates kept); what follows is empty without publications and
\* otherwise the at most 10 most frequent eligible words of the
\* publications, each once, more frequent first and equally frequent in
\* first-met order; empty interests without publications give the empty
\* profile.
C25_ProfileContents ==
    last.op = "profile" =>
        /\ Len(last.profile) >= Len(last.interests)
        /\ SubSeq(last.profile, 1, Len(last.interests)) = last.interests
        /\ last.publications = <<>> => KeywordsOf = <<>>
        /\ Len(KeywordsOf) <= 10
        /\ Range(KeywordsOf) \subseteq Eligible
        /\ \A i \in 1..Len(KeywordsOf) :
               i < Len(KeywordsOf) => Before(KeywordsOf[i], KeywordsOf[i + 1])
        /\ \A w \in Eligible \ Range(KeywordsOf) :
               /\ Len(KeywordsOf) = 10
               /\ Before(KeywordsOf[10], w)
        /\ (last.interests = <<>> /\ last.publications = <<>>) =>
               last.profile = <<>>

\* more than 10 eligible words: the two most frequent lead in first-met
\* order behind a repeated interest, and a word is cut off
C25_Witness ==
    /\ last.op = "profile"
    /\ last.interests = <<"ml", "ml">>
    /\ Cardinality(Eligible) > 10
    /\ Len(KeywordsOf) = 10
    /\ KeywordsOf[1] = "cccc"
    /\ KeywordsOf[2] = "llll"

\* the engine holds exactly what a complete load of artifact set a leaves
AllFrom(a) ==
    /\ df = Some(TableOf(a))
    /\ vectorizer = Some(Vocabulary)
    /\ author_vectors = Some(IndexOf(a))
    /\ knn_model = Some(IndexOf(a))
    /\ max_articles = SeriesMax(TableOf(a), "Articles_Count")
    /\ max_interests = SeriesMax(TableOf(a), "Interests_Count")

\* C26: whenever the engine reports loaded (df, vectorizer and knn_model
\* present), its six attributes all come from one artifact set, whatever
\* loads, complete or failing, came before.
C26_OneArtifactSet ==
    EngineLoaded => \E a \in ReloadArtifactSets : AllFrom(a)

\* every count of the corpus table is present and non-negative
CountsNonNegative ==
    \A i \in 1..Len(df.value) :
        /\ df.value[i].Articles_Count # NaN
        /\ df.value[i].Articles_Count >= 0
        /\ df.value[i].Interests_Count # NaN
        /\ df.value[i].Interests_Count >= 0

\* C27: on an engine that reports loaded, with a corpus of non-negative
\* counts, every returned entry has productivity_score and diversity_score
\* in [0, 1] and, its similarity being in [0.1, 1], total_score in
\* [0.06, 1].
C27_ScoresWithinUnit ==
    (Returned /\ EngineLoaded /\ CountsNonNegative) =>
        \A i \in 1..Len(last.result) :
            LET r == last.result[i]
            IN  /\ r.productivity_score >= 0
                /\ r.productivity_score <= Unit
                /\ r.diversity_score >= 0
                /\ r.diversity_score <= Unit
                /\ (10 * r.similarity_score >= Unit
                    /\ r.similarity_score <= Unit) =>
                       /\ 100 * r.total_score >= 6 * Unit
                       /\ r.total_score <= Unit

\* C28: the entries of the scientist list have pairwise distinct ids, and
\* none of them is the id of the active user.
C28_DistinctIds ==
    (last.op = "graph" /\ last.status = 200) =>
        /\ \A i, j \in 1..Len(last.scientists) :
               last.scientists[i].id = last.scientists[j].id => i = j
        /\ \A i \in 1..Len(last.scientists) :
               last.scientists[i].id # last.user

\* C29: after update_user_interests has stored a list, the list that the
\* graph's parsing recovers from the user's column is the submitted list,
\* in the same order; an empty list is read back as no interests.
C29_InterestsRoundTrip ==
    (last.op = "update" /\ last.status = 200) =>
        ParseInterests(CurrentUser.interests_list) = last.payload

====
